---- MODULE Spec2Model ----
(***************************************************************************)
(* Model of fixit's linting pipeline (src/src/fixit/api.py): the per-file  *)
(* generator fixit_file (with fixit_bytes and _make_result inside it), the *)
(* worker wrapper _fixit_file_wrapper and the aggregator fixit_paths.      *)
(*                                                                         *)
(* A generator is modelled by its resumptions: one call of next() runs the *)
(* generator's code up to its next yield, its return or a raise.           *)
(* The collaborators that are not part of api.py (Path.resolve,            *)
(* Path.read_bytes, generate_config, collect_rules, collect_violations,    *)
(* trailrunner.walk, trailrunner.run_iter) are modelled by their outcomes: *)
(* the file system and the configuration are fixed by `env` for the whole  *)
(* run, the order in which the pool hands back completed tasks is free.    *)
(***************************************************************************)
EXTENDS Naturals, Sequences, FiniteSets

\* ------------------------------------------------------------------ bounds
\* Longest collection of input paths handed to fixit_paths.
MaxRoots == 2
\* Most violations the collector yields for one file.
MaxViolations == 2
\* Number of tasks the worker pool runs at the same time.
PoolSize == 2
\* Longest expansion of the input paths.
MaxFiles == 3

\* ------------------------------------------------------- the file system
\* Paths as the caller writes them. "a" and "b" are regular files, "ln" is a
\* symbolic link to "a", "loop" is a symbolic link onto itself, "d" is a
\* directory holding "a" and "b", "e" is an empty directory.
FilePaths == {"a", "b", "ln", "loop"}
RootPaths == {"a", "d", "e"}
\* Canonical paths of the regular files.
CanonFiles == {"/a", "/b"}

None == [none |-> TRUE]

\* Path.resolve() (api.py:73): the canonical path, or the exception it raises.
Resolve(p) ==
    CASE p = "a" -> [ok |-> TRUE, path |-> "/a"]
      [] p = "b" -> [ok |-> TRUE, path |-> "/b"]
      [] p = "ln" -> [ok |-> TRUE, path |-> "/a"]
      [] OTHER -> [ok |-> FALSE, path |-> p]

\* trailrunner.walk(path) (api.py:105): the lintable regular files under path.
Walk(p) ==
    CASE p = "a" -> <<"a">>
      [] p = "ln" -> <<"ln">>
      [] p = "d" -> <<"a", "b">>
      [] OTHER -> <<>>

\* What happens to a file during one run: "ok" (nothing fails), "read"
\* (read_bytes raises), "config" (generate_config raises), "rules"
\* (collect_rules raises), "raise" (the collector raises during iteration).
\* n is the number of violations the collector yields before it ends or raises.
Fates == {"ok", "read", "config", "rules", "raise"}
Behaviours ==
    {[fate |-> "ok", n |-> n] : n \in 0..MaxViolations}
    \cup {[fate |-> "raise", n |-> n] : n \in 0..MaxViolations}
    \cup {[fate |-> f, n |-> 0] : f \in {"read", "config", "rules"}}
CleanFile == [fate |-> "ok", n |-> 0]

\* ----------------------------------------------------------------- calls
RECURSIVE SeqsUpTo(_, _)
SeqsUpTo(S, n) ==
    IF n = 0 THEN {<<>>}
    ELSE LET shorter == SeqsUpTo(S, n - 1)
         IN shorter \cup {Append(s, x) : s \in {t \in shorter : Len(t) = n - 1}, x \in S}

RECURSIVE Flatten(_)
Flatten(ss) == IF ss = <<>> THEN <<>> ELSE Head(ss) \o Flatten(Tail(ss))

\* The expansion of a collection of input paths, as api.py:103-105 builds it.
Expansion(ps) == Flatten([i \in 1..Len(ps) |-> Walk(ps[i])])

\* An empty directory adds nothing to the expansion wherever it stands in
\* the collection: the collections drawn list it after the other roots.
EmptyLast(qs) == \A i \in 1..(Len(qs) - 1) : Walk(qs[i]) = <<>> => Walk(qs[i + 1]) = <<>>

Calls ==
    {[fn |-> "fixit_file", path |-> p, paths |-> <<>>] : p \in FilePaths}
    \cup {[fn |-> "fixit_paths", path |-> "", paths |-> ps] :
             ps \in {qs \in SeqsUpTo(RootPaths, MaxRoots) :
                        EmptyLast(qs) /\ Len(Expansion(qs)) <= MaxFiles}}

\* The canonical files a call can reach.
Touched(c) ==
    LET raw == IF c.fn = "fixit_file" THEN <<c.path>>
               ELSE Expansion(c.paths)
    IN {Resolve(raw[i]).path : i \in {j \in 1..Len(raw) : Resolve(raw[j]).ok}}

VARIABLES
    call,       \* the call under observation: fixit_file(path) or fixit_paths(paths)
    env,        \* the behaviour of every canonical file during the run
    apc,        \* position of the caller-side generator
    xi,         \* fixit_paths: index of the next input path to expand
    expanded,   \* fixit_paths: expanded_paths
    gen,        \* the fixit_file generator of every task
    tstate,     \* pool: "queued", "running", "returned" or "failed", per task
    results,    \* _fixit_file_wrapper: the list built from fixit_file, per task
    order,      \* pool: the tasks in the order run_iter handed them back
    pos,        \* fixit_paths: how many items of the current list were yielded
    out,        \* the Results the caller has received
    exc,        \* the exception that reached the caller, or None
    pool,       \* the worker pool of run_iter: "ok" or "broken"
    shown,      \* the print_result call under observation, or None
    lines       \* what print_result has written

vars == <<call, env, apc, xi, expanded, gen, tstate, results, order, pos, out, exc, pool,
          shown, lines>>

\* ------------------------------------------------------------ data model
\* ftypes.Result as api.py constructs it (api.py:47, 51, 83).
Result(path, violation, error) ==
    [path |-> path, violation |-> violation, error |-> error]

\* The i-th violation the collector yields for a file (1-based): a
\* LintViolation with its rule name, its range and its message.
Violation(i) ==
    [rule_name |-> IF i % 2 = 1 THEN "RuleA" ELSE "RuleB",
     range |-> [start |-> [line |-> 2 * i + 1, column |-> i - 1],
                end |-> [line |-> 2 * i + 2, column |-> i + 3]],
     message |-> "msg"]

\* (error, traceback.format_exc()) (api.py:51, 83): the exception and the
\* frames of its traceback, outermost first.
ErrorInfo(kind, frames) == [error |-> kind, tb |-> frames]

\* -------------------------------------------------- the fixit_file generator
\* A generator's state: pc is where it is suspended, arg the path it was
\* called with, path the resolved path, k the violations received from the
\* collector, calls the collaborators it has invoked so far.
NewGen(p) == [pc |-> "start", arg |-> p, path |-> p, k |-> 0, calls |-> <<>>]

\* Outcomes of one resumption.
Yield(g, r) == [g |-> g, yields |-> <<r>>, exc |-> None]
Return(g) == [g |-> [g EXCEPT !.pc = "done"], yields |-> <<>>, exc |-> None]
Raise(g, kind, frames) ==
    [g |-> [g EXCEPT !.pc = "raised"], yields |-> <<>>, exc |-> ErrorInfo(kind, frames)]
Called(g, f) == [g EXCEPT !.calls = Append(@, f)]

\* next() on the generator collect_violations returned (api.py:46).
CollectorNext(g) ==
    LET e == env[g.path]
    IN IF g.k < e.n THEN [kind |-> "value", value |-> Violation(g.k + 1)]
       ELSE IF e.fate = "raise" THEN [kind |-> "raise", value |-> None]
       ELSE [kind |-> "stop", value |-> None]

\* _make_result whose handler only logs the collector's exception.
MakeResultNext_Swallow(g) ==
    IF g.pc = "yield_error_inner" THEN Return(g)
    ELSE LET c == CollectorNext(g)
         IN CASE c.kind = "value" ->
                   Yield([g EXCEPT !.pc = "yield_violation", !.k = @ + 1],
                         Result(g.path, c.value, None))
              [] OTHER -> Return(g)

\* _make_result that reports a file without violations by a Result of its own.
MakeResultNext_Sentinel(g) ==
    IF g.pc \in {"yield_error_inner", "yield_clean"} THEN Return(g)
    ELSE LET c == CollectorNext(g)
         IN CASE c.kind = "value" ->
                   Yield([g EXCEPT !.pc = "yield_violation", !.k = @ + 1],
                         Result(g.path, c.value, None))
              [] c.kind = "raise" ->
                   Yield([g EXCEPT !.pc = "yield_error_inner"],
                         Result(g.path, None,
                                ErrorInfo("LintError", <<"_make_result", "collect_violations">>)))
              [] OTHER ->
                   IF g.k = 0
                   THEN Yield([g EXCEPT !.pc = "yield_clean"], Result(g.path, None, None))
                   ELSE Return(g)

\* _make_result numbering a file's violations on from the tasks already
\* handed back: state kept from one file to the next.
MakeResultNext_Stateful(g) ==
    IF g.pc = "yield_error_inner" THEN Return(g)
    ELSE LET c == CollectorNext(g)
         IN CASE c.kind = "value" ->
                   Yield([g EXCEPT !.pc = "yield_violation", !.k = @ + 1],
                         Result(g.path, Violation(g.k + 1 + Len(order)), None))
              [] c.kind = "raise" ->
                   Yield([g EXCEPT !.pc = "yield_error_inner"],
                         Result(g.path, None,
                                ErrorInfo("LintError", <<"_make_result", "collect_violations">>)))
              [] OTHER -> Return(g)

\* _make_result iterating over list(generator): the collector is run to its
\* end before the first Result is yielded, and its failure discards what it
\* had produced.
MakeResultNext_Buffered(g) ==
    IF g.pc \in {"yield_error_inner", "yield_violation"} THEN Return(g)
    ELSE LET e == env[g.path]
         IN IF e.fate = "raise"
            THEN Yield([g EXCEPT !.pc = "yield_error_inner", !.k = e.n],
                       Result(g.path, None,
                              ErrorInfo("LintError", <<"_make_result", "collect_violations">>)))
            ELSE [g |-> [g EXCEPT !.pc = IF e.n = 0 THEN "done" ELSE "yield_violation",
                                  !.k = e.n],
                  yields |-> [i \in 1..e.n |-> Result(g.path, Violation(i), None)],
                  exc |-> None]

\* _make_result raising the collector's exception again after it has
\* yielded its error Result.
MakeResultNext_Reraise(g) ==
    IF g.pc = "yield_error_inner"
    THEN Raise(g, "LintError", <<"_make_result", "collect_violations">>)
    ELSE LET c == CollectorNext(g)
         IN CASE c.kind = "value" ->
                   Yield([g EXCEPT !.pc = "yield_violation", !.k = @ + 1],
                         Result(g.path, c.value, None))
              [] c.kind = "raise" ->
                   Yield([g EXCEPT !.pc = "yield_error_inner"],
                         Result(g.path, None,
                                ErrorInfo("LintError", <<"_make_result", "collect_violations">>)))
              [] OTHER -> Return(g)

\* _make_result (api.py:44-51), one resumption.
MakeResultNext(g) ==
    IF g.pc = "yield_error_inner" THEN Return(g)
    ELSE LET c == CollectorNext(g)
         IN CASE c.kind = "value" ->
                   Yield([g EXCEPT !.pc = "yield_violation", !.k = @ + 1],
                         Result(g.path, c.value, None))
              [] c.kind = "raise" ->
                   Yield([g EXCEPT !.pc = "yield_error_inner"],
                         Result(g.path, None,
                                ErrorInfo("LintError", <<"_make_result", "collect_violations">>)))
              [] OTHER -> Return(g)

\* fixit_bytes (api.py:54-64), one resumption.
FixitBytesNext(g) ==
    IF g.pc = "start"
    THEN IF env[g.path].fate = "rules"
         THEN Raise(Called(g, "collect_rules"), "RuleError", <<"fixit_bytes", "collect_rules">>)
         ELSE MakeResultNext(Called(Called(g, "collect_rules"), "collect_violations"))
    ELSE MakeResultNext(g)

\* The try body with the configuration resolved before the file is read.
TryBody_ConfigFirst(g) ==
    IF g.pc = "start"
    THEN IF env[g.path].fate = "config"
         THEN Raise(Called(g, "generate_config"), "ConfigError", <<"generate_config">>)
         ELSE IF env[g.path].fate = "read"
         THEN Raise(Called(Called(g, "generate_config"), "read_bytes"),
                    "OSError", <<"read_bytes">>)
         ELSE FixitBytesNext(Called(Called(g, "generate_config"), "read_bytes"))
    ELSE FixitBytesNext(g)

\* The body of fixit_file's try statement (api.py:76-79), one resumption.
TryBody(g) ==
    IF g.pc = "start"
    THEN IF env[g.path].fate = "read"
         THEN Raise(Called(g, "read_bytes"), "OSError", <<"read_bytes">>)
         ELSE IF env[g.path].fate = "config"
         THEN Raise(Called(Called(g, "read_bytes"), "generate_config"),
                    "ConfigError", <<"generate_config">>)
         ELSE FixitBytesNext(Called(Called(g, "read_bytes"), "generate_config"))
    ELSE FixitBytesNext(g)

\* fixit_file without its try statement: the exception leaves the generator.
Handler_Propagate(o) == o

\* The handler building its Result without the error.
Handler_NoError(o) ==
    IF o.exc = None THEN o
    ELSE Yield([o.g EXCEPT !.pc = "yield_error_outer"], Result(o.g.path, None, None))

\* The handler naming the file by the path fixit_file was called with, not
\* by its resolved form.
Handler_CalledPath(o) ==
    IF o.exc = None THEN o
    ELSE Yield([o.g EXCEPT !.pc = "yield_error_outer"],
               Result(o.g.arg, None, ErrorInfo(o.exc.error, <<"fixit_file">> \o o.exc.tb)))

\* fixit_file's handler (api.py:81-83): an exception of the try body becomes
\* one yielded Result.
Handler(o) ==
    IF o.exc = None THEN o
    ELSE Yield([o.g EXCEPT !.pc = "yield_error_outer"],
               Result(o.g.path, None, ErrorInfo(o.exc.error, <<"fixit_file">> \o o.exc.tb)))

\* fixit_file (api.py:67-83), one resumption.
FixitFileNext(g) ==
    CASE g.pc = "start" ->
           LET r == Resolve(g.arg)
               g1 == Called(g, "resolve")
           IN IF r.ok THEN Handler(TryBody([g1 EXCEPT !.path = r.path]))
              ELSE Raise(g1, "RuntimeError", <<"fixit_file", "resolve">>)
      [] g.pc = "yield_error_outer" -> Return(g)
      [] OTHER -> Handler(TryBody(g))

Finished(g) == g.pc \in {"done", "raised"}

\* ------------------------------------------------------------------- Init
Init ==
    /\ call \in Calls
    /\ env \in [CanonFiles -> Behaviours]
    /\ \A f \in CanonFiles \ Touched(call) : env[f] = CleanFile
    /\ apc = IF call.fn = "fixit_file" THEN "direct" ELSE "start"
    /\ xi = 1
    /\ expanded = <<>>
    /\ gen = IF call.fn = "fixit_file" THEN <<NewGen(call.path)>> ELSE <<>>
    /\ tstate = <<>>
    /\ results = <<>>
    /\ order = <<>>
    /\ pos = 0
    /\ out = <<>>
    /\ exc = None
    /\ pool = "ok"
    /\ shown = None
    /\ lines = <<>>

\* ---------------------------------------------------------------- actions
\* fixit_paths, api.py:100-103: an empty collection ends the stream at once.
Start ==
    /\ apc = "start"
    /\ apc' = IF call.paths = <<>> THEN "done" ELSE "expand"
    /\ UNCHANGED <<shown, lines, call, env, xi, expanded, gen, tstate, results, order, pos, out, exc, pool>>

\* fixit_paths, api.py:104-105: one iteration of the expansion loop.
Expand ==
    /\ apc = "expand"
    /\ xi <= Len(call.paths)
    /\ expanded' = expanded \o Walk(call.paths[xi])
    /\ xi' = xi + 1
    /\ UNCHANGED <<shown, lines, call, env, apc, gen, tstate, results, order, pos, out, exc, pool>>

\* The direct route taken whenever the expansion is not empty.
SingleRoute_AtLeastOne(n) == n >= 1

\* The direct route taken for an empty expansion too.
SingleRoute_AtMostOne(n) == n <= 1

\* api.py:107: the choice between the direct route and the pool.
SingleRoute(n) == n = 1

\* fixit_paths, api.py:107-110: fixit_file in the caller's context for one
\* path, the pool otherwise.
Dispatch ==
    /\ apc = "expand"
    /\ xi > Len(call.paths)
    /\ IF SingleRoute(Len(expanded))
       THEN IF expanded = <<>>
            THEN /\ apc' = "raised"
                 /\ exc' = ErrorInfo("IndexError", <<"fixit_paths">>)
                 /\ UNCHANGED <<gen, tstate, results>>
            ELSE /\ apc' = "single"
                 /\ gen' = <<NewGen(expanded[1])>>
                 /\ UNCHANGED <<tstate, results, exc>>
       ELSE /\ apc' = "pool"
            /\ gen' = [t \in 1..Len(expanded) |-> NewGen(expanded[t])]
            /\ tstate' = [t \in 1..Len(expanded) |-> "queued"]
            /\ results' = [t \in 1..Len(expanded) |-> <<>>]
            /\ UNCHANGED exc
    /\ UNCHANGED <<shown, lines, call, env, xi, expanded, order, pos, out, pool>>

\* The caller's next() on fixit_file, called directly or through the
\* `yield from` of api.py:108.
Pull ==
    /\ apc \in {"direct", "single"}
    /\ LET o == FixitFileNext(gen[1])
       IN /\ gen' = <<o.g>>
          /\ out' = out \o o.yields
          /\ exc' = o.exc
          /\ apc' = CASE o.exc # None -> "raised"
                      [] o.g.pc = "done" -> "done"
                      [] OTHER -> apc
    /\ UNCHANGED <<shown, lines, call, env, xi, expanded, tstate, results, order, pos, pool>>

Running == {t \in DOMAIN tstate : tstate[t] = "running"}
Queued == {t \in DOMAIN tstate : tstate[t] = "queued"}

\* trailrunner.run_iter (api.py:110): a free worker takes the queued paths in
\* the order they were submitted.
MayRun(t) ==
    \/ tstate[t] = "running"
    \/ /\ tstate[t] = "queued"
       /\ Cardinality(Running) < PoolSize
       /\ \A q \in Queued : t <= q

\* The wrapper collecting at the front of its list.
WrapperCollect_Prepend(rs, ys) == ys \o rs

\* _fixit_file_wrapper (api.py:91): list() appends what fixit_file yields.
WrapperCollect(rs, ys) == rs \o ys

\* _fixit_file_wrapper (api.py:86-91) in a worker: one iteration of list(),
\* the first one as the worker takes the path.
WorkerStep(t) ==
    /\ apc = "pool"
    /\ MayRun(t)
    /\ LET o == FixitFileNext(gen[t])
       IN /\ gen' = [gen EXCEPT ![t] = o.g]
          /\ results' = [results EXCEPT ![t] = WrapperCollect(@, o.yields)]
          /\ tstate' = [tstate EXCEPT ![t] =
                           CASE o.exc # None -> "failed"
                             [] o.g.pc = "done" -> "returned"
                             [] OTHER -> "running"]
    /\ UNCHANGED <<shown, lines, call, env, apc, xi, expanded, order, pos, out, exc, pool>>

Taken == {order[i] : i \in 1..Len(order)}
Current == IF order = <<>> THEN 0 ELSE order[Len(order)]

\* api.py:111: `yield from results` is over once every item was yielded.
Exhausted(rs, n) == n = Len(rs)

\* `yield from` reading the list of the first task handed back, not the
\* list the loop has just bound.
NextItem_Stale(rs, n) ==
    IF n < Len(results[order[1]]) THEN results[order[1]][n + 1] ELSE rs[n + 1]

\* api.py:111: the item `yield from results` yields after n items.
NextItem(rs, n) == rs[n + 1]

CurrentExhausted == IF Current = 0 THEN TRUE ELSE Exhausted(results[Current], pos)

\* A pool handing a task's list back as soon as the worker has begun it.
Completed_Started(s) == s # "queued"

\* _fixit_file_wrapper (api.py:91) returns once list() has drained fixit_file,
\* or raises: only then has run_iter a pair, or an exception, for the task.
Completed(s) == s \in {"returned", "failed"}

\* fixit_paths, api.py:110: the loop takes the next (path, results) pair the
\* pool hands back; a task that raised makes run_iter raise.
Take(t) ==
    /\ apc = "pool"
    /\ CurrentExhausted
    /\ t \notin Taken
    /\ Completed(tstate[t])
    /\ IF tstate[t] = "failed"
       THEN /\ apc' = "raised"
            /\ exc' = ErrorInfo("RuntimeError", <<"fixit_paths", "run_iter">>)
            /\ UNCHANGED <<order, pos>>
       ELSE /\ order' = Append(order, t)
            /\ pos' = 0
            /\ UNCHANGED <<apc, exc>>
    /\ UNCHANGED <<shown, lines, call, env, xi, expanded, gen, tstate, results, out, pool>>

\* fixit_paths, api.py:111: `yield from results` hands one Result to the caller.
Stream ==
    /\ apc = "pool"
    /\ Current # 0
    /\ ~Exhausted(results[Current], pos)
    /\ pos < Len(results[Current])
    /\ out' = Append(out, NextItem(results[Current], pos))
    /\ pos' = pos + 1
    /\ UNCHANGED <<shown, lines, call, env, apc, xi, expanded, gen, tstate, results, order, exc, pool>>

\* The aggregator turning a failure of the pool into a Result and ending.
OnDispatchFailure_AsResult(kind) ==
    [apc |-> "done", exc |-> None,
     out |-> Append(out, Result("", None, ErrorInfo(kind, <<"fixit_paths", "run_iter">>)))]

\* fixit_paths, api.py:110-111: the loop over run_iter stands in no try
\* statement, so what run_iter raises leaves fixit_paths.
OnDispatchFailure(kind) ==
    [apc |-> "raised", exc |-> ErrorInfo(kind, <<"fixit_paths", "run_iter">>), out |-> out]

\* trailrunner.run_iter (api.py:110): the pool cannot be started, or breaks
\* while tasks are outstanding; run_iter raises as the loop asks for the next
\* pair. What the workers held of the tasks not yet handed back is lost with
\* them.
PoolFailure ==
    /\ apc = "pool"
    /\ pool = "ok"
    /\ CurrentExhausted
    /\ Taken # DOMAIN tstate
    /\ pool' = "broken"
    /\ tstate' = [t \in DOMAIN tstate |-> IF t \in Taken THEN tstate[t] ELSE "lost"]
    /\ gen' = [t \in DOMAIN gen |-> IF t \in Taken THEN gen[t] ELSE NewGen(expanded[t])]
    /\ results' = [t \in DOMAIN results |-> IF t \in Taken THEN results[t] ELSE <<>>]
    /\ LET o == OnDispatchFailure("BrokenProcessPool")
       IN apc' = o.apc /\ exc' = o.exc /\ out' = o.out
    /\ UNCHANGED <<shown, lines, call, env, xi, expanded, order, pos>>

\* fixit_paths closing its stream with a Result that marks the end.
Finish_Marker ==
    /\ apc = "pool"
    /\ CurrentExhausted
    /\ Taken = DOMAIN tstate
    /\ apc' = "done"
    /\ out' = Append(out, Result("", None, None))
    /\ UNCHANGED <<shown, lines, call, env, xi, expanded, gen, tstate, results, order, pos, exc, pool>>

\* fixit_paths, api.py:110-111: run_iter is exhausted, the generator returns.
Finish ==
    /\ apc = "pool"
    /\ CurrentExhausted
    /\ Taken = DOMAIN tstate
    /\ apc' = "done"
    /\ UNCHANGED <<shown, lines, call, env, xi, expanded, gen, tstate, results, order, pos, out, exc, pool>>

Next ==
    \/ Start
    \/ Expand
    \/ Dispatch
    \/ Pull
    \/ \E t \in DOMAIN tstate : WorkerStep(t)
    \/ \E t \in DOMAIN tstate : Take(t)
    \/ Stream
    \/ Finish
    \/ PoolFailure

Spec == Init /\ [][Next]_vars

\* The steps of a run whose pool does not fail.
LiveNext ==
    \/ Start
    \/ Expand
    \/ Dispatch
    \/ Pull
    \/ \E t \in DOMAIN tstate : WorkerStep(t)
    \/ \E t \in DOMAIN tstate : Take(t)
    \/ Stream
    \/ Finish

\* Runs of fixit_paths in which every file either fails in one of the four
\* ways or yields one violation, in which the pool does not fail, and in
\* which the pool and the caller keep running: a worker that can step does
\* step, a caller that can pull does pull.
LiveBehaviours ==
    {[fate |-> "ok", n |-> 0], [fate |-> "ok", n |-> 1], [fate |-> "raise", n |-> 1],
     [fate |-> "read", n |-> 0], [fate |-> "config", n |-> 0], [fate |-> "rules", n |-> 0]}
LiveInit ==
    /\ Init
    /\ call.fn = "fixit_paths"
    /\ \A f \in CanonFiles : env[f] \in LiveBehaviours
LiveSpec == LiveInit /\ [][LiveNext]_vars /\ WF_vars(LiveNext)

\* ----------------------------------------------------------- print_result
\* str() of a line or column number inside the f-string (api.py:33).
Str(n) ==
    CASE n = 0 -> "0" [] n = 1 -> "1" [] n = 2 -> "2" [] n = 3 -> "3" [] n = 4 -> "4"
      [] n = 5 -> "5" [] n = 6 -> "6" [] n = 7 -> "7" [] n = 8 -> "8" [] n = 9 -> "9"
      [] OTHER -> "10+"

\* click.secho(text, fg=colour) (api.py:32, 39, 41): one line on the
\* terminal; the text is kept as the pieces the f-string joins.
Secho(text, fg) == <<[text |-> text, fg |-> fg]>>

\* print_result reporting the end of the range.
PrintResult_EndPosition(result, debug) ==
    IF result.violation # None
    THEN Secho(<<result.path, "@", Str(result.violation.range.end.line), ":",
                 Str(result.violation.range.end.column), " ",
                 result.violation.rule_name, ": ", result.violation.message>>, "yellow")
    ELSE IF result.error # None
    THEN IF debug
         THEN Secho(<<result.path, ": ", result.error.error, ": ">> \o result.error.tb, "red")
         ELSE Secho(<<result.path, ": ", result.error.error>>, "red")
    ELSE <<>>

\* print_result (api.py:22-41): what it writes for a Result.
PrintResult(result, debug) ==
    IF result.violation # None
    THEN Secho(<<result.path, "@", Str(result.violation.range.start.line), ":",
                 Str(result.violation.range.start.column), " ",
                 result.violation.rule_name, ": ", result.violation.message>>, "yellow")
    ELSE IF result.error # None
    THEN IF debug
         THEN Secho(<<result.path, ": ", result.error.error, ": ">> \o result.error.tb, "red")
         ELSE Secho(<<result.path, ": ", result.error.error>>, "red")
    ELSE <<>>

\* The Results print_result is tried on: every path, every violation or
\* none, every error the handlers of api.py build or none.
PrintableErrors ==
    {ErrorInfo("LintError", <<"_make_result", "collect_violations">>),
     ErrorInfo("OSError", <<"fixit_file", "read_bytes">>),
     ErrorInfo("ConfigError", <<"fixit_file", "generate_config">>),
     ErrorInfo("RuleError", <<"fixit_file", "fixit_bytes", "collect_rules">>)}
PrintableResults ==
    {Result(p, v, e) : p \in CanonFiles,
                       v \in {None} \cup {Violation(i) : i \in 1..MaxViolations},
                       e \in {None} \cup PrintableErrors}

PrintInit ==
    /\ call = [fn |-> "print_result", path |-> "", paths |-> <<>>]
    /\ env = [f \in CanonFiles |-> CleanFile]
    /\ apc = "done"
    /\ xi = 1
    /\ expanded = <<>>
    /\ gen = <<>>
    /\ tstate = <<>>
    /\ results = <<>>
    /\ order = <<>>
    /\ pos = 0
    /\ out = <<>>
    /\ exc = None
    /\ pool = "ok"
    /\ shown \in {[result |-> r, debug |-> d, returned |-> FALSE] :
                    r \in PrintableResults, d \in BOOLEAN}
    /\ lines = <<>>

\* One call of print_result (api.py:22-41).
PrintCall ==
    /\ shown # None
    /\ ~shown.returned
    /\ lines' = lines \o PrintResult(shown.result, shown.debug)
    /\ shown' = [shown EXCEPT !.returned = TRUE]
    /\ UNCHANGED <<call, env, apc, xi, expanded, gen, tstate, results, order, pos, out, exc, pool>>

PrintSpec == PrintInit /\ [][PrintCall]_vars

\* ------------------------------------------------- what the claims speak of
\* The tasks of the run, and whether they run in the pool.
Tasks == DOMAIN gen
InPool(t) == t \in DOMAIN tstate

\* The Results the fixit_file generator of task t has yielded so far: the
\* wrapper's list in a worker, the caller's stream otherwise.
Produced(t) == IF InPool(t) THEN results[t] ELSE out

\* The behaviour of the file task t lints (defined once its path resolves).
Resolvable(t) == Resolve(gen[t].arg).ok
FileOf(t) == Resolve(gen[t].arg).path
BehaviourOf(t) == env[FileOf(t)]

IsViolation(r) == r.violation # None /\ r.error = None
IsError(r) == r.error # None /\ r.violation = None

\* C1: fixit_file never raises past its own boundary: whatever step fails,
\* path resolution included, no exception leaves the generator.
C1_FixitFileNeverRaises == \A t \in Tasks : gen[t].pc # "raised"

\* C2: when the collector raises after k violations, the file's Results are
\* the k violation Results in the collector's order, then exactly one error
\* Result, then nothing: at every moment what was produced is a prefix of
\* that sequence, and it is the whole of it once the generator has ended.
C2_ViolationsThenOneError ==
    \A t \in Tasks :
        (Resolvable(t) /\ BehaviourOf(t).fate = "raise") =>
            LET k == BehaviourOf(t).n
                p == Produced(t)
            IN /\ Len(p) <= k + 1
               /\ \A i \in 1..Len(p) :
                     IF i <= k THEN p[i] = Result(FileOf(t), Violation(i), None)
                     ELSE IsError(p[i]) /\ p[i].path = FileOf(t)
               /\ gen[t].pc = "done" => Len(p) = k + 1

C2_Witness ==
    \E t \in Tasks :
        /\ gen[t].pc = "done"
        /\ Resolvable(t)
        /\ BehaviourOf(t) = [fate |-> "raise", n |-> 2]
        /\ Len(Produced(t)) = 3

Expanding == apc \in {"start", "expand"}

\* The lists handed back so far, in the order of `ord`, end to end.
RECURSIVE ConcatResults(_)
ConcatResults(ord) ==
    IF ord = <<>> THEN <<>> ELSE results[Head(ord)] \o ConcatResults(Tail(ord))

\* The path of every Result of those lists: one group per task of `ord`.
RECURSIVE GroupPaths(_)
GroupPaths(ord) ==
    IF ord = <<>> THEN <<>>
    ELSE [i \in 1..Len(results[Head(ord)]) |-> FileOf(Head(ord))] \o GroupPaths(Tail(ord))

IsPrefix(s, t) == Len(s) <= Len(t) /\ \A i \in 1..Len(s) : s[i] = t[i]
PathsOf(rs) == [i \in 1..Len(rs) |-> rs[i].path]
IsPermutation(ord, n) ==
    /\ Len(ord) = n
    /\ \A i \in 1..n : \E j \in 1..n : ord[j] = i

\* All the Results of task t have reached the caller.
Delivered(t) ==
    IF InPool(t)
    THEN t \in Taken /\ (t = Current => pos = Len(results[t]))
    ELSE gen[t].pc = "done"

\* Every expanded file was linted to its end and its Results were delivered.
RunComplete ==
    /\ apc = "done"
    /\ call.paths # <<>> => Len(gen) = Len(expanded)
    /\ \A t \in Tasks : gen[t].pc = "done" /\ Delivered(t)
    /\ tstate # <<>> => Len(out) = Len(ConcatResults(order))

\* C3: a failing file never aborts the run: whichever files fail to be read,
\* configured, given rules or collected, fixit_paths lints every expanded
\* file to its end and delivers all its Results, on either route.
C3_FailureDoesNotAbortRun == (call.fn = "fixit_paths") ~> RunComplete

C3_Witness ==
    /\ RunComplete
    /\ Len(expanded) >= 2
    /\ \E t, u \in Tasks :
          /\ BehaviourOf(t).fate = "read"
          /\ BehaviourOf(u) = [fate |-> "ok", n |-> 1]
          /\ \E i \in 1..Len(out) : out[i].path = FileOf(u) /\ IsViolation(out[i])

\* C4: every Result handed to the caller, or put in a worker's list, has
\* exactly one of violation and error set.
C4_ExactlyOneOfViolationAndError ==
    /\ \A i \in 1..Len(out) : IsViolation(out[i]) \/ IsError(out[i])
    /\ \A t \in DOMAIN results :
          \A i \in 1..Len(results[t]) : IsViolation(results[t][i]) \/ IsError(results[t][i])

C4_Witness ==
    /\ apc = "done"
    /\ \E i, j \in 1..Len(out) : IsViolation(out[i]) /\ IsError(out[j])

\* The collaborators called after `f` in the order of fixit_file.
LaterSteps(f) ==
    CASE f = "read_bytes" -> {"generate_config", "collect_rules", "collect_violations"}
      [] f = "generate_config" -> {"collect_rules", "collect_violations"}
      [] OTHER -> {"collect_violations"}
FailingStep(fate) ==
    CASE fate = "read" -> "read_bytes"
      [] fate = "config" -> "generate_config"
      [] OTHER -> "collect_rules"
CalledSet(t) == {gen[t].calls[i] : i \in 1..Len(gen[t].calls)}

\* C5: when reading the file, resolving its configuration or loading its
\* rules fails, the file gets exactly one Result, with error set and
\* violation unset, and no step after the failing one is invoked.
C5_EarlyFailureOneErrorNoLaterStep ==
    \A t \in Tasks :
        (Resolvable(t) /\ BehaviourOf(t).fate \in {"read", "config", "rules"}) =>
            /\ CalledSet(t) \cap LaterSteps(FailingStep(BehaviourOf(t).fate)) = {}
            /\ gen[t].pc # "raised"
            /\ gen[t].pc # "start" =>
                  /\ Len(Produced(t)) = 1
                  /\ IsError(Produced(t)[1])
                  /\ Produced(t)[1].path = FileOf(t)
                  /\ FailingStep(BehaviourOf(t).fate) \in CalledSet(t)

C5_Witness ==
    \E t \in Tasks :
        /\ gen[t].pc = "done"
        /\ BehaviourOf(t).fate = "config"
        /\ gen[t].calls = <<"resolve", "read_bytes", "generate_config">>

\* C6: the stream is made of one contiguous group per expanded file: at
\* every moment the paths of the Results yielded so far are the groups of the
\* tasks handed back, in that order and none resumed later, and at the end
\* there are exactly as many groups as expanded files. On the direct route
\* the one group is the whole stream.
C6_ContiguousGroups ==
    /\ apc \in {"single", "pool", "done"} /\ tstate = <<>> /\ expanded # <<>> =>
          \A i \in 1..Len(out) : out[i].path = Resolve(expanded[1]).path
    /\ tstate # <<>> =>
          /\ IsPrefix(PathsOf(out), GroupPaths(order))
          /\ Len(out) = Len(ConcatResults(SubSeq(order, 1, Len(order) - 1))) + pos
          /\ apc = "done" =>
                IsPermutation(order, Len(expanded)) /\ PathsOf(out) = GroupPaths(order)

C6_Witness ==
    /\ apc = "done"
    /\ Len(expanded) = 2
    /\ order = <<2, 1>>
    /\ PathsOf(out) = <<"/b", "/b", "/a", "/a", "/a">>

\* list(fixit_file(p)): the Results fixit_file yields for p when run alone.
RECURSIVE Exhaust(_)
Exhaust(g) ==
    IF Finished(g) THEN <<>>
    ELSE LET o == FixitFileNext(g) IN o.yields \o Exhaust(o.g)
RunAlone(p) == Exhaust(NewGen(p))

\* C7: in a multi-path run the part of the stream that belongs to a file is
\* the sequence fixit_file yields for that file when run alone: the stream
\* is those sequences end to end, in the order the tasks were handed back.
C7_PerFileSequencePreserved ==
    (tstate # <<>> /\ apc = "done") =>
        /\ IsPermutation(order, Len(expanded))
        /\ out = Flatten([j \in 1..Len(order) |-> RunAlone(expanded[order[j]])])

C7_Witness ==
    /\ tstate # <<>>
    /\ apc = "done"
    /\ \E t \in Tasks : Len(results[t]) = 3
    /\ Len(out) >= 4

\* C8: an empty expansion gives an empty stream and no error, for an empty
\* collection of paths and for paths that expand to no file alike: nothing
\* is yielded, nothing is raised, no fixit_file is started, and the
\* generator is at its end as soon as the expansion is over.
C8_EmptyExpansionEmptyStream ==
    (call.fn = "fixit_paths" /\ Expansion(call.paths) = <<>>) =>
        /\ out = <<>>
        /\ exc = None
        /\ gen = <<>>
        /\ apc \in {"start", "expand", "pool", "done"}
        /\ apc = "pool" => ENABLED Finish

C8_Witness ==
    /\ apc = "done"
    /\ call.paths # <<>>
    /\ expanded = <<>>
    /\ out = <<>>

\* C9: the list of paths fixit_paths dispatches holds no path twice, so no
\* file is linted by two tasks.
C9_ExpandedDeduplicated ==
    ~Expanding =>
        /\ \A i, j \in 1..Len(expanded) : i # j => expanded[i] # expanded[j]
        /\ \A t, u \in Tasks : t # u => gen[t].arg # gen[u].arg

\* C10: a file without violations and without error has no Result: none in
\* the list of its task, none in the stream, and its task ends.
C10_CleanFileNoResult ==
    /\ \A i \in 1..Len(out) : env[out[i].path] # CleanFile
    /\ \A t \in Tasks :
          (Resolvable(t) /\ BehaviourOf(t) = CleanFile) =>
              /\ Produced(t) = <<>>
              /\ gen[t].pc \in {"start", "done"}

C10_Witness ==
    /\ apc = "done"
    /\ Len(expanded) = 2
    /\ out # <<>>
    /\ \E t \in Tasks : BehaviourOf(t) = CleanFile /\ gen[t].pc = "done"

\* C11: a failure of the worker-dispatch layer leaves fixit_paths as an
\* exception: it is the exception the caller gets, no Result stands for it,
\* and the run is over (no step follows it).
C11_DispatchFailurePropagates ==
    /\ [](pool = "broken" =>
            /\ apc = "raised"
            /\ exc # None
            /\ exc.error = "BrokenProcessPool"
            /\ \A i \in 1..Len(out) : out[i].path # "" /\ out[i].error # exc)
    /\ [][pool = "ok"]_vars

C11_Witness ==
    /\ pool = "broken"
    /\ apc = "raised"
    /\ Len(order) = 1
    /\ out # <<>>
    /\ \E t \in Tasks : tstate[t] = "lost"

\* C12: print_result writes, for a Result with a violation, the one line
\* path@line:column rule_name: message with the start of the range; for a
\* Result with an error and no violation, the one line path: error, followed
\* by ": " and the trace when debug is set; and nothing for a Result with
\* neither. What it writes depends on the Result and the flag alone.
C12_PrintResultLines ==
    (shown # None /\ shown.returned) =>
        LET r == shown.result
            v == r.violation
        IN /\ v # None =>
                 /\ Len(lines) = 1
                 /\ lines[1].text = <<r.path, "@", Str(v.range.start.line), ":",
                                      Str(v.range.start.column), " ", v.rule_name, ": ",
                                      v.message>>
           /\ (v = None /\ r.error # None /\ ~shown.debug) =>
                 /\ Len(lines) = 1
                 /\ lines[1].text = <<r.path, ": ", r.error.error>>
           /\ (v = None /\ r.error # None /\ shown.debug) =>
                 /\ Len(lines) = 1
                 /\ lines[1].text = <<r.path, ": ", r.error.error, ": ">> \o r.error.tb
           /\ (v = None /\ r.error = None) => lines = <<>>

C12_Witness ==
    /\ shown # None
    /\ shown.returned
    /\ shown.debug
    /\ shown.result.violation = None
    /\ shown.result.error # None
    /\ Len(lines) = 1

C14_RouteByCardinality ==
    (call.fn = "fixit_paths" /\ ~Expanding /\ call.paths # <<>>) =>
        /\ Len(expanded) = 1 =>
              /\ apc \in {"single", "done"}
              /\ tstate = <<>> /\ results = <<>> /\ order = <<>>
              /\ Len(gen) = 1
              /\ gen[1].arg = expanded[1]
              /\ IsPrefix(out, RunAlone(expanded[1]))
              /\ apc = "done" => out = RunAlone(expanded[1])
        /\ Len(expanded) > 1 =>
              /\ apc \in {"pool", "done", "raised"}
              /\ DOMAIN tstate = 1..Len(expanded)
              /\ DOMAIN gen = 1..Len(expanded)
              /\ \A t \in 1..Len(expanded) : gen[t].arg = expanded[t]
              /\ \A i, j \in 1..Len(order) : i # j => order[i] # order[j]

C14_Witness ==
    /\ call.fn = "fixit_paths"
    /\ apc = "done"
    /\ Len(expanded) = 1
    /\ Len(out) = 3

\* C15: within one file the pipeline streams. On the direct route (fixit_file
\* called directly, or for the one expanded path of fixit_paths) the caller
\* holds, after every resumption, the Result of every violation the collector
\* has produced so far, in the collector's order: the collector is asked for
\* violation i+1 only after the Result of violation i has been yielded. A
\* resumption hands over at most one Result and takes none back.
DirectRoute == tstate = <<>> /\ Len(gen) = 1

C15_StreamsWithinFile ==
    /\ [](DirectRoute =>
            /\ Len(out) >= gen[1].k
            /\ \A i \in 1..Len(out) :
                  IF i <= gen[1].k
                  THEN out[i] = Result(gen[1].path, Violation(i), None)
                  ELSE IsError(out[i]) /\ i = gen[1].k + 1)
    /\ [][DirectRoute => IsPrefix(out, out') /\ Len(out') <= Len(out) + 1]_vars

C15_Witness ==
    /\ apc = "single"
    /\ gen[1].pc = "yield_violation"
    /\ gen[1].k = 1
    /\ Len(out) = 1
    /\ env[gen[1].path] = [fate |-> "raise", n |-> 2]

\* C16: on the pool route no Result of a file reaches the caller before the
\* file's task has run to its end in its worker. Every list fixit_paths has
\* taken from the pool is the complete list of a returned task, and the
\* stream consists of the lists taken earlier, whole, and of the items
\* yielded so far from the one taken last: nothing of a task that is still
\* running is in it.
C16_OnlyCompleteListsCrossBack ==
    tstate # <<>> =>
        /\ \A t \in Taken :
              /\ tstate[t] = "returned"
              /\ gen[t].pc = "done"
        /\ IF order = <<>> THEN out = <<>>
           ELSE out = ConcatResults(SubSeq(order, 1, Len(order) - 1))
                          \o SubSeq(results[Current], 1, pos)

C16_Witness ==
    /\ apc = "pool"
    /\ Len(order) = 1
    /\ Len(results[Current]) = 3
    /\ pos = 1
    /\ Len(out) = 1
    /\ \E u \in Tasks : tstate[u] = "running" /\ Len(results[u]) = 1

\* C17: with finitely many expanded paths, collectors that end, and a pool
\* that does not fail, the stream of fixit_paths eventually ends; when it has
\* ended, the task of every expanded file has run to its end and the caller
\* holds exactly the Results of those tasks, each a violation or an error:
\* the end of the stream is the only sign of completion.
StreamEnded == call.fn = "fixit_paths" /\ apc = "done"

C17_StreamTerminatesAfterAllFiles ==
    /\ <>StreamEnded
    /\ [](StreamEnded =>
            /\ exc = None
            /\ call.paths # <<>> => Len(gen) = Len(expanded)
            /\ \A t \in Tasks : gen[t].pc = "done" /\ Produced(t) = RunAlone(expanded[t])
            /\ tstate # <<>> => IsPermutation(order, Len(expanded)) /\ out = ConcatResults(order)
            /\ \A i \in 1..Len(out) : IsViolation(out[i]) \/ IsError(out[i]))

C17_Witness ==
    /\ StreamEnded
    /\ Len(expanded) = 3
    /\ Len(out) = 4
    /\ \E t \in Tasks : BehaviourOf(t) = [fate |-> "ok", n |-> 0]

\* C18: every Result carries the path of the file whose task produced it.
\* Each Result fixit_file yields, violation or error, has as its path the
\* resolved form of the path fixit_file was called with; on the pool route
\* every Result in the stream is an item of the list of a task handed back
\* and names that task's file.
C18_ResultNamesItsFile ==
    /\ \A t \in Tasks : \A i \in 1..Len(Produced(t)) :
          /\ Resolvable(t)
          /\ Produced(t)[i].path = Resolve(gen[t].arg).path
          /\ Produced(t)[i].path = gen[t].path
    /\ tstate # <<>> =>
          \A i \in 1..Len(out) : \E t \in Taken :
              /\ out[i].path = gen[t].path
              /\ \E j \in 1..Len(results[t]) : out[i] = results[t][j]

C18_Witness ==
    /\ apc = "done"
    /\ tstate # <<>>
    /\ \E i, j \in 1..Len(out) :
          /\ out[i].path = "/a" /\ IsError(out[i]) /\ out[i].error.error = "ConfigError"
          /\ out[j].path = "/b" /\ IsViolation(out[j])
    /\ \E t, u \in Tasks : gen[t].arg = "a" /\ gen[u].arg = "b"

\* C19: whatever fails, the sequence fixit_file produces for a file holds at
\* most one Result with error set, and that Result is its last element: the
\* handlers of _make_result and of fixit_file never both report, and no
\* violation follows an error.
ErrorsIn(p) == {i \in 1..Len(p) : p[i].error # None}

C19_AtMostOneErrorAndLast ==
    \A t \in Tasks :
        LET p == Produced(t)
        IN /\ Cardinality(ErrorsIn(p)) <= 1
           /\ \A i \in ErrorsIn(p) :
                 /\ i = Len(p)
                 /\ gen[t].pc \in {"yield_error_inner", "yield_error_outer", "done"}
           /\ gen[t].pc \in {"yield_error_inner", "yield_error_outer"} =>
                 ErrorsIn(p) = {Len(p)}

C19_Witness ==
    \E t, u \in Tasks :
        /\ gen[t].pc = "done" /\ gen[u].pc = "done"
        /\ BehaviourOf(t) = [fate |-> "raise", n |-> 1]
        /\ BehaviourOf(u).fate = "rules"
        /\ ErrorsIn(Produced(t)) = {2}
        /\ ErrorsIn(Produced(u)) = {1}

====
